---- MODULE Spec2Model ----
(***************************************************************************)
(* A model of the Dropbox Sign client: the client handle, its two remote   *)
(* operations (get_signature_request, send_with_template), the shared      *)
(* envelope parser parse_response and the serde shapes it deserializes.    *)
(*                                                                         *)
(* JSON documents are modelled as tagged trees, Rust values as TLA+ values *)
(* (String -> string, bool -> BOOLEAN, integers -> Int, Vec -> sequence,   *)
(* struct and HashMap -> function from names, Option -> None / Some(x)).   *)
(***************************************************************************)
EXTENDS Integers, Sequences, FiniteSets, TLC

(***************************************************************************)
(* Bounds of the model.                                                    *)
(***************************************************************************)
\* longest top-level `warnings` array a response carries
MaxWarnings == 2

(***************************************************************************)
(* serde_json::Value                                                       *)
(***************************************************************************)
JNull == [t |-> "null"]
JBool(b) == [t |-> "bool", v |-> b]
JNum(n) == [t |-> "num", v |-> n]
JStr(s) == [t |-> "str", v |-> s]
JArr(a) == [t |-> "arr", v |-> a]
JObj(o) == [t |-> "obj", v |-> o]
EmptyObj == JObj(<<>>)

(***************************************************************************)
(* Option and Result                                                       *)
(***************************************************************************)
None == [t |-> "None"]
Some(x) == [t |-> "Some", v |-> x]
Ok(x) == [v |-> x, ok |-> TRUE]
Err(e) == [ok |-> FALSE, e |-> e]

\* serde_json::Error, by its category: "syntax" for text that is not JSON,
\* "data" for JSON that does not have the shape of the target type.
SerdeError(cat) == [src |-> "serde_json", cat |-> cat]
\* reqwest::Error, by the phase that failed: "send" or "body".
ReqwestError(phase) == [src |-> "reqwest", phase |-> phase]
\* A String turned into Box<dyn Error>.
StringError(msg) == [src |-> "string", msg |-> msg]

(***************************************************************************)
(* Type descriptors of the serde shapes.                                   *)
(***************************************************************************)
TString == [k |-> "String"]
TBool == [k |-> "bool"]
TU64 == [k |-> "u64"]
TI64 == [k |-> "i64"]
TI32 == [k |-> "i32"]
TU8 == [k |-> "u8"]
TStatusCode == [k |-> "StatusCode"]
TMap == [k |-> "HashMap"]
TOpt(ty) == [k |-> "Option", of |-> ty]
TVec(ty) == [k |-> "Vec", of |-> ty]
TEnum(name) == [k |-> "Enum", name |-> name]
TStruct(name) == [k |-> "Struct", name |-> name]

\* A struct field: its name, its key on the wire (the name unless renamed),
\* its type, and its serde attributes:
\*   dflt: #[serde(default)], omit: #[serde(skip_serializing_if =
\*   "Option::is_none")], skip: #[serde(skip)].
Field(name, key, ty, dflt, omit, skip) ==
  [name |-> name, key |-> key, ty |-> ty, dflt |-> dflt, omit |-> omit, skip |-> skip]
Req(name, ty) == Field(name, name, ty, FALSE, FALSE, FALSE)
Opt(name, ty) == Field(name, name, TOpt(ty), TRUE, TRUE, FALSE)
Skip(name, ty) == Field(name, name, ty, FALSE, FALSE, TRUE)

WarningResponse ==
  << Req("warning_msg", TString), Req("warning_name", TString) >>

ErrorResponse ==
  << Req("error", TStruct("ErrorResponseError")) >>

ErrorResponseError ==
  << Skip("status", TStatusCode),
     Req("error_msg", TString),
     Field("error_path", "error_path", TOpt(TString), FALSE, FALSE, FALSE),
     Req("error_name", TString) >>

SendSignatureRequest ==
  << Req("signers", TVec(TStruct("SubSignatureRequestTemplateSigner"))),
     Req("template_ids", TVec(TString)),
     Opt("allow_decline", TBool),
     Opt("ccs", TVec(TStruct("SubCC"))),
     Opt("client_id", TString),
     Opt("custom_fields", TVec(TStruct("SubCustomField"))),
     Opt("files", TVec(TVec(TU8))),
     Opt("file_urls", TVec(TString)),
     Opt("is_eid", TBool),
     Opt("message", TString),
     Opt("metadata", TMap),
     Opt("signing_options", TStruct("SubSigningOptions")),
     Opt("signing_redirect_url", TString),
     Opt("test_mode", TBool),
     Opt("title", TString) >>

SubSignatureRequestTemplateSigner ==
  << Req("role", TString),
     Req("name", TString),
     Req("email_address", TString),
     Opt("pin", TString),
     Opt("sms_phone_number", TString),
     Opt("sms_phone_number_type", TEnum("SMSPhoneNumberType")) >>

SubCC ==
  << Req("role", TString), Req("email", TString) >>

SubCustomField ==
  << Req("name", TString),
     Opt("editor", TString),
     Opt("required", TBool),
     Opt("value", TString) >>

SubSigningOptions ==
  << Req("default_type", TEnum("SubSigningOptionsDefaultType")),
     Opt("draw", TBool),
     Opt("phone", TBool),
     Field("o_type", "type", TOpt(TBool), TRUE, TRUE, FALSE),
     Opt("upload", TBool) >>

\* Unit-only enums, each value written as the name of its variant on the
\* wire (rename_all = "lowercase").
SMSPhoneNumberType == { "authentication", "delivery" }

SubSigningOptionsDefaultType == { "draw", "phone", "type", "upload" }

SignatureRequestResponse ==
  << Opt("test_mode", TBool),
     Req("signature_request_id", TString),
     Opt("requester_email_address", TString),
     Req("title", TString),
     Req("original_title", TString),
     Opt("subject", TString),
     Opt("message", TString),
     Req("metadata", TMap),
     Req("created_at", TU64),
     Opt("expires_at", TU64),
     Req("is_complete", TBool),
     Req("is_declined", TBool),
     Req("has_error", TBool),
     Req("files_url", TString),
     Opt("signing_url", TString),
     Req("details_url", TString),
     Req("cc_email_addresses", TVec(TString)),
     Opt("signing_redirect_url", TString),
     Opt("final_copy_uri", TString),
     Opt("template_ids", TVec(TString)),
     Opt("custom_ids", TVec(TString)),
     Opt("attachments", TStruct("SignatureRequestResponseAttachment")),
     Opt("response_data", TVec(TStruct("SignatureRequestResponseData"))),
     Req("signatures", TVec(TStruct("SignatureRequestResponseSignatures"))),
     Opt("bulk_send_job_id", TString) >>

SignatureRequestResponseAttachment ==
  << Req("id", TString),
     Req("signer", TString),
     Req("name", TString),
     Req("required", TBool),
     Opt("instructions", TString),
     Opt("uploaded_at", TU64) >>

SignatureRequestResponseData ==
  << Opt("api_id", TString),
     Opt("signature_id", TString),
     Opt("name", TString),
     Opt("required", TBool),
     Opt("o_type", TEnum("SignatureRequestResponseDataType")),
     Opt("value", TString) >>

SignatureRequestResponseSignatures ==
  << Req("signature_id", TString),
     Opt("signer_group_guid", TString),
     Req("signer_email_address", TString),
     Opt("signer_name", TString),
     Opt("signer_role", TString),
     Opt("order", TI32),
     Req("status_code", TString),
     Opt("decline_reason", TString),
     Opt("signed_at", TI64),
     Opt("last_viewed_at", TI64),
     Opt("last_reminded_at", TI64),
     Req("has_pin", TBool),
     Opt("has_sms_auth", TBool),
     Opt("has_sms_delivery", TBool),
     Opt("sms_phone_number", TString),
     Opt("reassigned_by", TString),
     Opt("reassignment_reason", TString),
     Opt("reassigned_from", TString),
     Opt("error", TString) >>

SignatureRequestResponseDataType ==
  { "text", "checkbox", "dropdown", "radio", "signature", "date_signed",
    "initials", "text-merge", "checkbox-merge" }

StructFields(name) ==
  CASE name = "WarningResponse" -> WarningResponse
    [] name = "SendSignatureRequest" -> SendSignatureRequest
    [] name = "SubSignatureRequestTemplateSigner" -> SubSignatureRequestTemplateSigner
    [] name = "SubCC" -> SubCC
    [] name = "SubCustomField" -> SubCustomField
    [] name = "SubSigningOptions" -> SubSigningOptions
    [] name = "ErrorResponse" -> ErrorResponse
    [] name = "ErrorResponseError" -> ErrorResponseError
    [] name = "SignatureRequestResponse" -> SignatureRequestResponse
    [] name = "SignatureRequestResponseAttachment" -> SignatureRequestResponseAttachment
    [] name = "SignatureRequestResponseData" -> SignatureRequestResponseData
    [] name = "SignatureRequestResponseSignatures" -> SignatureRequestResponseSignatures

EnumVariants(name) ==
  CASE name = "SignatureRequestResponseDataType" -> SignatureRequestResponseDataType
    [] name = "SMSPhoneNumberType" -> SMSPhoneNumberType
    [] name = "SubSigningOptionsDefaultType" -> SubSigningOptionsDefaultType

(***************************************************************************)
(* Deserialization (serde derive over a serde_json::Value).                *)
(***************************************************************************)
\* StatusCode::default(), the value a #[serde(skip)] status field gets.
DefaultStatusCode == 200

\* Default::default() of the types that are defaulted here.
DefaultOf(ty) ==
  CASE ty.k = "Option" -> None
    [] ty.k = "StatusCode" -> DefaultStatusCode

RECURSIVE De(_, _), DeVec(_, _), DeStructMap(_, _), DeStructSeq(_, _)

\* MissingField with a slip: only #[serde(default)] fields may be missing.
MissingFieldStrict(f) ==
  IF f.dflt THEN Ok(DefaultOf(f.ty)) ELSE Err(SerdeError("data"))

\* A field the input does not hold: None for an Option, the default for a
\* #[serde(default)] field, and otherwise the error "missing field".
MissingField(f) ==
  IF f.dflt \/ f.ty.k = "Option" THEN Ok(DefaultOf(f.ty)) ELSE Err(SerdeError("data"))

\* serde_json::from_value::<ty>(v)
De(ty, v) ==
  CASE ty.k = "String" ->
         IF v.t = "str" THEN Ok(v.v) ELSE Err(SerdeError("data"))
    [] ty.k = "bool" ->
         IF v.t = "bool" THEN Ok(v.v) ELSE Err(SerdeError("data"))
    [] ty.k = "u64" ->
         IF v.t = "num" /\ v.v >= 0 THEN Ok(v.v) ELSE Err(SerdeError("data"))
    [] ty.k = "u8" ->
         IF v.t = "num" /\ v.v >= 0 /\ v.v < 2^8
         THEN Ok(v.v) ELSE Err(SerdeError("data"))
    [] ty.k = "i64" ->
         IF v.t = "num" THEN Ok(v.v) ELSE Err(SerdeError("data"))
    [] ty.k = "i32" ->
         IF v.t = "num" /\ v.v >= -(2^31) /\ v.v < 2^31
         THEN Ok(v.v) ELSE Err(SerdeError("data"))
    [] ty.k = "HashMap" ->
         IF v.t = "obj" /\ \A key \in DOMAIN v.v : v.v[key].t = "str"
         THEN Ok([key \in DOMAIN v.v |-> v.v[key].v])
         ELSE Err(SerdeError("data"))
    [] ty.k = "Enum" ->
         IF v.t = "str" /\ v.v \in EnumVariants(ty.name)
         THEN Ok(v.v) ELSE Err(SerdeError("data"))
    [] ty.k = "Option" ->
         IF v.t = "null" THEN Ok(None)
         ELSE LET r == De(ty.of, v) IN IF r.ok THEN Ok(Some(r.v)) ELSE r
    [] ty.k = "Vec" ->
         IF v.t = "arr" THEN DeVec(ty.of, v.v) ELSE Err(SerdeError("data"))
    [] ty.k = "Struct" ->
         IF v.t = "obj" THEN DeStructMap(StructFields(ty.name), v.v)
         ELSE IF v.t = "arr" THEN DeStructSeq(StructFields(ty.name), v.v)
         ELSE Err(SerdeError("data"))

\* The first error among the results res[1..n], or None when all are Ok.
FirstError(res) ==
  LET bad == { i \in DOMAIN res : ~res[i].ok } IN
  IF bad = {} THEN None
  ELSE Some(res[CHOOSE i \in bad : \A j \in bad : i <= j])

\* DeVec with a slip: the elements are collected back to front.
DeVecReversed(ty, a) ==
  LET res == [i \in DOMAIN a |-> De(ty, a[i])]
      err == FirstError(res)
  IN IF err.t = "Some" THEN err.v ELSE Ok([i \in DOMAIN a |-> res[Len(a) + 1 - i].v])

\* The elements of an array, in order; the first error wins.
DeVec(ty, a) ==
  LET res == [i \in DOMAIN a |-> De(ty, a[i])]
      err == FirstError(res)
  IN IF err.t = "Some" THEN err.v ELSE Ok([i \in DOMAIN a |-> res[i].v])

\* The struct whose field fields[i] has the result res[i].
Build(fields, res) ==
  LET err == FirstError(res) IN
  IF err.t = "Some" THEN err.v
  ELSE Ok([ name \in { fields[i].name : i \in DOMAIN fields } |->
              res[CHOOSE i \in DOMAIN fields : fields[i].name = name].v ])

\* A struct from a JSON object: each field looked up by its key; unknown
\* keys of the object are ignored.
DeStructMap(fields, o) ==
  Build(fields,
        [ i \in DOMAIN fields |->
            LET f == fields[i] IN
            IF f.skip THEN Ok(DefaultOf(f.ty))
            ELSE IF f.key \in DOMAIN o THEN De(f.ty, o[f.key])
            ELSE MissingField(f) ])

\* The position in a JSON array of field fields[i]: a skipped field takes
\* no element.
Position(fields, i) == Cardinality({ j \in 1..i : ~fields[j].skip })

\* A struct from a JSON array: each field taken by position; elements left
\* over are an error.
DeStructSeq(fields, a) ==
  IF Len(a) > Position(fields, Len(fields)) THEN Err(SerdeError("data"))
  ELSE Build(fields,
             [ i \in DOMAIN fields |->
                 LET f == fields[i] IN
                 IF f.skip THEN Ok(DefaultOf(f.ty))
                 ELSE IF Position(fields, i) <= Len(a)
                      THEN De(f.ty, a[Position(fields, i)])
                 ELSE IF f.dflt THEN Ok(DefaultOf(f.ty))
                 ELSE Err(SerdeError("data")) ])

\* serde_json::from_str: the text of a body is JSON or it is not.
from_str(body) ==
  IF body.valid THEN Ok(body.json) ELSE Err(SerdeError("syntax"))

\* Value::get(key): the member of an object, None for any other value.
Get(json, key) ==
  IF json.t = "obj" /\ key \in DOMAIN json.v THEN Some(json.v[key]) ELSE None

\* serde_json::from_str::<ty>(&body)
from_str_as(ty, body) ==
  LET json == from_str(body) IN IF json.ok THEN De(ty, json.v) ELSE json

(***************************************************************************)
(* Serialization (serde derive into a serde_json::Value).                  *)
(***************************************************************************)
RECURSIVE Ser(_, _), SerStruct(_, _)

\* serde_json::to_value(x) for x of type ty
Ser(ty, x) ==
  CASE ty.k = "String" -> JStr(x)
    [] ty.k = "bool" -> JBool(x)
    [] ty.k \in {"u8", "u64", "i64", "i32"} -> JNum(x)
    [] ty.k = "HashMap" -> JObj([key \in DOMAIN x |-> JStr(x[key])])
    [] ty.k = "Enum" -> JStr(x)
    [] ty.k = "Option" -> IF x.t = "None" THEN JNull ELSE Ser(ty.of, x.v)
    [] ty.k = "Vec" -> JArr([i \in DOMAIN x |-> Ser(ty.of, x[i])])
    [] ty.k = "Struct" -> JObj(SerStruct(StructFields(ty.name), x))

\* SerStruct with a slip: skip_serializing_if is not honoured.
SerStructWithNulls(fields, x) ==
  LET kept == { i \in DOMAIN fields : ~fields[i].skip }
  IN [ key \in { fields[i].key : i \in kept } |->
         LET f == fields[CHOOSE i \in kept : fields[i].key = key]
         IN Ser(f.ty, x[f.name]) ]

\* The members of the object of a struct: a skipped field and an omit field
\* holding None give no member.
SerStruct(fields, x) ==
  LET kept == { i \in DOMAIN fields :
                  ~(fields[i].skip \/ (fields[i].omit /\ x[fields[i].name].t = "None")) }
  IN [ key \in { fields[i].key : i \in kept } |->
         LET f == fields[CHOOSE i \in kept : fields[i].key = key]
         IN Ser(f.ty, x[f.name]) ]

(***************************************************************************)
(* SendSignatureRequest and its builder-style setters                      *)
(***************************************************************************)
\* SendSignatureRequest_new with a slip: the documented default of
\* allow_decline is filled in.
SendSignatureRequest_new_defaulting(signers, template_ids) ==
  [ signers |-> signers, template_ids |-> template_ids,
    allow_decline |-> Some(TRUE), ccs |-> None, client_id |-> None,
    custom_fields |-> None, files |-> None, file_urls |-> None,
    is_eid |-> None, message |-> None, metadata |-> None,
    signing_options |-> None, signing_redirect_url |-> None,
    test_mode |-> None, title |-> None ]

SendSignatureRequest_new(signers, template_ids) ==
  [ signers |-> signers, template_ids |-> template_ids,
    allow_decline |-> None, ccs |-> None, client_id |-> None,
    custom_fields |-> None, files |-> None, file_urls |-> None,
    is_eid |-> None, message |-> None, metadata |-> None,
    signing_options |-> None, signing_redirect_url |-> None,
    test_mode |-> None, title |-> None ]

allow_decline(self, x) == [self EXCEPT !.allow_decline = Some(x)]
ccs(self, x) == [self EXCEPT !.ccs = Some(x)]
client_id(self, x) == [self EXCEPT !.client_id = Some(x)]
custom_fields(self, x) == [self EXCEPT !.custom_fields = Some(x)]
files(self, x) == [self EXCEPT !.files = Some(x)]
\* file_urls with a slip: files, its alternative, is cleared.
file_urls_exclusive(self, x) == [self EXCEPT !.file_urls = Some(x), !.files = None]
file_urls(self, x) == [self EXCEPT !.file_urls = Some(x)]
is_eid(self, x) == [self EXCEPT !.is_eid = Some(x)]
message(self, x) == [self EXCEPT !.message = Some(x)]
metadata(self, x) == [self EXCEPT !.metadata = Some(x)]
signing_options(self, x) == [self EXCEPT !.signing_options = Some(x)]
signing_redirect_url(self, x) == [self EXCEPT !.signing_redirect_url = Some(x)]
test_mode(self, x) == [self EXCEPT !.test_mode = Some(x)]
title(self, x) == [self EXCEPT !.title = Some(x)]

\* The setter of SendSignatureRequest of the given name.
Setter(name, self, x) ==
  CASE name = "allow_decline" -> allow_decline(self, x)
    [] name = "ccs" -> ccs(self, x)
    [] name = "client_id" -> client_id(self, x)
    [] name = "custom_fields" -> custom_fields(self, x)
    [] name = "files" -> files(self, x)
    [] name = "file_urls" -> file_urls(self, x)
    [] name = "is_eid" -> is_eid(self, x)
    [] name = "message" -> message(self, x)
    [] name = "metadata" -> metadata(self, x)
    [] name = "signing_options" -> signing_options(self, x)
    [] name = "signing_redirect_url" -> signing_redirect_url(self, x)
    [] name = "test_mode" -> test_mode(self, x)
    [] name = "title" -> title(self, x)

SubSignatureRequestTemplateSigner_new(role, name, email_address) ==
  [ role |-> role, name |-> name, email_address |-> email_address,
    pin |-> None, sms_phone_number |-> None, sms_phone_number_type |-> None ]

SubCustomField_new(name) ==
  [ name |-> name, editor |-> None, required |-> None, value |-> None ]

SubCustomField_value(self, x) == [self EXCEPT !.value = Some(x)]
SubCustomField_editor(self, x) == [self EXCEPT !.editor = Some(x)]
SubCustomField_required(self, x) == [self EXCEPT !.required = Some(x)]

SubSignatureRequestTemplateSigner_pin(self, x) == [self EXCEPT !.pin = Some(x)]
SubSignatureRequestTemplateSigner_sms_phone_number(self, x) ==
  [self EXCEPT !.sms_phone_number = Some(x)]
SubSignatureRequestTemplateSigner_sms_phone_number_type(self, x) ==
  [self EXCEPT !.sms_phone_number_type = Some(x)]

SubCC_new(role, email) == [ role |-> role, email |-> email ]

SubSigningOptions_new(default_type) ==
  [ default_type |-> default_type, draw |-> None, phone |-> None,
    o_type |-> None, upload |-> None ]
SubSigningOptions_draw(self, x) == [self EXCEPT !.draw = Some(x)]
SubSigningOptions_phone(self, x) == [self EXCEPT !.phone = Some(x)]
SubSigningOptions_o_type(self, x) == [self EXCEPT !.o_type = Some(x)]
SubSigningOptions_upload(self, x) == [self EXCEPT !.upload = Some(x)]

(***************************************************************************)
(* parse_response                                                          *)
(***************************************************************************)
\* The error for a body without the payload key, by its message (written
\* here without the quotes the source puts around the key).
MissingKey(key) == StringError("Missing key " \o key \o " in response")

\* PayloadLookup with a slip: a missing key is read as null.
PayloadLookupNull(json, key) ==
  LET payload == Get(json, key) IN
  IF payload.t = "None" THEN Ok(JNull) ELSE Ok(payload.v)

\* json.get(key).ok_or_else(..): the payload, or the "missing key" error.
PayloadLookup(json, key) ==
  LET payload == Get(json, key) IN
  IF payload.t = "None" THEN Err(MissingKey(key)) ELSE Ok(payload.v)

\* ExtractWarnings with a slip: no key gives an empty list
\* (unwrap_or_default).
ExtractWarningsOrEmpty(json) ==
  LET w == Get(json, "warnings") IN
  IF w.t = "None" THEN Ok(Some(<<>>))
  ELSE LET r == De(TVec(TStruct("WarningResponse")), w.v) IN
       IF r.ok THEN Ok(Some(r.v)) ELSE r

\* ExtractWarnings with a slip: warnings that do not deserialize are
\* dropped (.ok() in place of transpose()?).
ExtractWarningsLenient(json) ==
  LET w == Get(json, "warnings") IN
  IF w.t = "None" THEN Ok(None)
  ELSE LET r == De(TVec(TStruct("WarningResponse")), w.v) IN
       IF r.ok THEN Ok(Some(r.v)) ELSE Ok(None)

\* ExtractWarnings with a slip: the value is deserialized as one warning
\* record, not as a list of them.
ExtractWarningsSingle(json) ==
  LET w == Get(json, "warnings") IN
  IF w.t = "None" THEN Ok(None)
  ELSE LET r == De(TStruct("WarningResponse"), w.v) IN
       IF r.ok THEN Ok(Some(<<r.v>>)) ELSE r

\* ExtractWarnings with a slip: the elements of the list that are no warning
\* records are left out.
ExtractWarningsSkipping(json) ==
  LET w == Get(json, "warnings") IN
  IF w.t = "None" THEN Ok(None)
  ELSE IF w.v.t # "arr" THEN Err(SerdeError("data"))
  ELSE LET kept == { i \in DOMAIN w.v.v : De(TStruct("WarningResponse"), w.v.v[i]).ok }
           nth(k) == CHOOSE i \in kept : Cardinality({ j \in kept : j <= i }) = k
       IN Ok(Some([ k \in 1..Cardinality(kept) |->
                      De(TStruct("WarningResponse"), w.v.v[nth(k)]).v ]))

\* json.get("warnings").map(from_value).transpose(): no key gives None, a
\* key gives Some(list) or the error of deserializing its value as a list.
ExtractWarnings(json) ==
  LET w == Get(json, "warnings") IN
  IF w.t = "None" THEN Ok(None)
  ELSE LET r == De(TVec(TStruct("WarningResponse")), w.v) IN
       IF r.ok THEN Ok(Some(r.v)) ELSE r

\* parse_response with a slip: the warnings are deserialized before the
\* payload key is looked up.
parse_response_warnings_first(text, key) ==
  IF ~text.ok THEN Err(text.e)
  ELSE LET json == from_str(text.v) IN
  IF ~json.ok THEN Err(json.e)
  ELSE LET warnings == ExtractWarnings(json.v) IN
  IF ~warnings.ok THEN Err(warnings.e)
  ELSE LET payload == PayloadLookup(json.v, key) IN
  IF ~payload.ok THEN Err(payload.e)
  ELSE LET inner == De(TStruct("SignatureRequestResponse"), payload.v) IN
  IF ~inner.ok THEN Err(inner.e)
  ELSE Ok(<<inner.v, warnings.v>>)

\* parse_response::<SignatureRequestResponse>(response, key), given the
\* outcome `text` of reading the body. Every `?` returns the error boxed.
parse_response(text, key) ==
  IF ~text.ok THEN Err(text.e)
  ELSE LET json == from_str(text.v) IN
  IF ~json.ok THEN Err(json.e)
  ELSE LET payload == PayloadLookup(json.v, key) IN
  IF ~payload.ok THEN Err(payload.e)
  ELSE LET inner == De(TStruct("SignatureRequestResponse"), payload.v) IN
  IF ~inner.ok THEN Err(inner.e)
  ELSE LET warnings == ExtractWarnings(json.v) IN
  IF ~warnings.ok THEN Err(warnings.e)
  ELSE Ok(<<inner.v, warnings.v>>)

(***************************************************************************)
(* DropboxSignClientError                                                  *)
(***************************************************************************)
Reqwest(e) == [variant |-> "Reqwest", inner |-> e]
Serde(e) == [variant |-> "Serde", inner |-> e]
ResponseError(e) == [variant |-> "ResponseError", inner |-> e]
Other(e) == [variant |-> "Other", inner |-> e]

(***************************************************************************)
(* DropboxSignClient                                                       *)
(***************************************************************************)
API_URL == "https://api.hellosign.com/v3"
PayloadKey == "signature_request"
StatusOK == 200
DefaultPool == 5
DefaultTimeout == 30

new(api_key) == [api_key |-> api_key, pool |-> DefaultPool, timeout |-> DefaultTimeout]
\* with_pool with a slip: the handle is built afresh around the new pool.
with_pool_fresh(self, pool) ==
  [api_key |-> self.api_key, pool |-> pool, timeout |-> DefaultTimeout]
with_pool(self, pool) == [self EXCEPT !.pool = pool]
with_timeout(self, timeout) == [self EXCEPT !.timeout = timeout]

\* The branch on the status that both operations take once the response
\* has arrived: the success envelope for 200 OK, the error envelope otherwise.
IsSuccess(status) == status = StatusOK

\* The else branch of both operations: the body read as an error envelope.
ErrorBranch(text) ==
  IF ~text.ok THEN Err(Reqwest(text.e))
  ELSE LET parsed == from_str_as(TStruct("ErrorResponse"), text.v) IN
       IF ~parsed.ok THEN Err(Serde(parsed.e))
       ELSE Err(ResponseError(parsed.v.error))

\* get_signature_request from `let status = response.status()` on.
get_signature_request_finish(status, text) ==
  IF IsSuccess(status)
  THEN LET r == parse_response(text, PayloadKey) IN
       IF r.ok THEN Ok(r.v) ELSE Err(Other(r.e))
  ELSE ErrorBranch(text)

\* send_with_template_finish with a slip: the parse error is not boxed.
send_with_template_finish_unboxed(status, text) ==
  IF IsSuccess(status)
  THEN LET r == parse_response(text, PayloadKey) IN
       IF r.ok THEN Ok(r.v) ELSE Err(Serde(r.e))
  ELSE ErrorBranch(text)

\* send_with_template from `let status = response.status()` on.
send_with_template_finish(status, text) ==
  IF IsSuccess(status)
  THEN LET r == parse_response(text, PayloadKey) IN
       IF r.ok THEN Ok(r.v) ELSE Err(Other(r.e))
  ELSE ErrorBranch(text)

\* get_request with a slip: the handle's timeout is put on the request.
get_request_with_timeout(self, signature_request_id) ==
  [ method |-> "GET",
    url |-> API_URL \o "/signature_request/" \o signature_request_id,
    basic_auth |-> <<self.api_key, Some("")>>,
    json |-> None,
    timeout |-> self.timeout ]

\* send_request with a slip: the password is left out.
send_request_no_password(self, send_signature_request) ==
  [ method |-> "POST",
    url |-> API_URL \o "/signature_request/send_with_template",
    basic_auth |-> <<self.api_key, None>>,
    json |-> Some(Ser(TStruct("SendSignatureRequest"), send_signature_request)) ]

\* The requests the two operations build.
get_request(self, signature_request_id) ==
  [ method |-> "GET",
    url |-> API_URL \o "/signature_request/" \o signature_request_id,
    basic_auth |-> <<self.api_key, Some("")>>,
    json |-> None ]

send_request(self, send_signature_request) ==
  [ method |-> "POST",
    url |-> API_URL \o "/signature_request/send_with_template",
    basic_auth |-> <<self.api_key, Some("")>>,
    json |-> Some(Ser(TStruct("SendSignatureRequest"), send_signature_request)) ]

\* The request a call of operation o with argument a hands to the transport.
RequestOf(self, o, a) ==
  IF o = "get" THEN get_request(self, a) ELSE send_request(self, a)

(***************************************************************************)
(* The inputs the model draws from.                                        *)
(***************************************************************************)
ApiKeys == { "key-a", "key-b" }
PoolSizes == { 5, 10 }
Timeouts == { 30, 60 }
\* The identifiers a caller may pass, the empty one among them: the
\* parameter is a &str and nothing inspects it.
SignatureRequestIds == { "abc123", "" }
Statuses == { 200, 201, 204, 301, 400, 500 }

Signer1 ==
  SubSignatureRequestTemplateSigner_new("Client", "test name", "john@example.com")

SendRequests ==
  { SendSignatureRequest_new(<<Signer1>>, <<"template-id">>),
    custom_fields(
      test_mode(title(SendSignatureRequest_new(<<Signer1>>, <<"template-id">>),
                      "Contract Signature"), TRUE),
      << SubCustomField_value(SubCustomField_new("test_field_one"),
                              "This is test field one!") >>) }

\* All sequences over S of length at most n.
SeqsUpTo(S, n) == UNION { [1..k -> S] : k \in 0..n }

\* A member of a JSON object that may be absent from it.
Absent == [t |-> "absent"]
Member(key, v) == IF v.t = "absent" THEN <<>> ELSE (key :> v)

\* Payloads under the key signature_request.
Payload1 ==
  JObj([ signature_request_id |-> JStr("abc123"), title |-> JStr("T"),
         original_title |-> JStr("T"), metadata |-> EmptyObj,
         created_at |-> JNum(1), is_complete |-> JBool(FALSE),
         is_declined |-> JBool(FALSE), has_error |-> JBool(FALSE),
         files_url |-> JStr("u"), details_url |-> JStr("u"),
         cc_email_addresses |-> JArr(<<>>), signatures |-> JArr(<<>>) ])

Signature1 ==
  JObj([ signature_id |-> JStr("s1"), signer_email_address |-> JStr("john@example.com"),
         status_code |-> JStr("awaiting_signature"), has_pin |-> JBool(FALSE),
         order |-> JNull, signed_at |-> JNum(2) ])

Payload2 ==
  JObj([ signature_request_id |-> JStr("def456"), test_mode |-> JBool(TRUE),
         metadata |-> JObj([ k |-> JStr("v") ]),
         cc_email_addresses |-> JArr(<< JStr("cc@example.com") >>),
         signatures |-> JArr(<< Signature1 >>),
         response_data |-> JArr(<< JObj([ o_type |-> JStr("text-merge") ]) >>),
         unknown_key |-> JNum(7) ] @@ Payload1.v)

GoodPayloads == { Payload1, Payload2 }

BadPayloads ==
  { JNull,
    JObj([ key \in DOMAIN Payload1.v \ {"title"} |-> Payload1.v[key] ]),
    JObj([ created_at |-> JStr("1") ] @@ Payload1.v),
    JObj([ signatures |-> JArr(<< JObj([ signature_id |-> JStr("s1") ]) >>) ]
         @@ Payload1.v) }

\* Elements of the top-level warnings array.
Warning1 ==
  JObj([ warning_msg |-> JStr("This is a test"), warning_name |-> JStr("test_mode") ])
Warning2 ==
  JObj([ warning_msg |-> JStr("Unknown field"), warning_name |-> JStr("unknown_param"),
         extra |-> JBool(TRUE) ])
GoodWarningElements == { Warning1, Warning2 }

\* Lists of warning records, of every length up to MaxWarnings.
GoodWarnings == { JArr(a) : a \in SeqsUpTo(GoodWarningElements, MaxWarnings) }

\* A record written as the array of its fields, which serde accepts too.
PositionalWarnings == { JArr(<< JArr(<< JStr("By position"), JStr("positional") >>) >>) }

BadWarnings ==
  { JNull,
    JStr("oops"),
    JArr(<< JObj([ warning_msg |-> JStr("This is a test") ]) >>),
    JArr(<< Warning1, JObj([ warning_msg |-> JNum(1), warning_name |-> JStr("n") ]) >>) }

\* Values under the key error.
GoodErrors ==
  { JObj([ error_msg |-> JStr("Invalid template"), error_name |-> JStr("invalid_params") ]),
    JObj([ error_msg |-> JStr("Not found"), error_name |-> JStr("not_found"),
           error_path |-> JNull ]),
    JObj([ error_msg |-> JStr("Bad signer"), error_name |-> JStr("bad_request"),
           error_path |-> JStr("signers[0]") ]) }

BadErrors ==
  { JStr("failure"),
    JObj([ error_name |-> JStr("invalid_params") ]) }

\* The bodies a response may carry: text that is not JSON, JSON that is not
\* an object, and objects with any of the three top-level members.
Bodies ==
  { [valid |-> FALSE, json |-> JNull] }
  \cup { [valid |-> TRUE, json |-> j] : j \in { JArr(<<>>), JStr("ok") } }
  \cup { [valid |-> TRUE,
          json |-> JObj(Member("signature_request", p) @@ Member("warnings", w)
                        @@ Member("error", e))] :
           p \in GoodPayloads \cup BadPayloads \cup {Absent},
           w \in GoodWarnings \cup PositionalWarnings \cup BadWarnings \cup {Absent},
           e \in GoodErrors \cup BadErrors \cup {Absent} }

(***************************************************************************)
(* State                                                                   *)
(***************************************************************************)
VARIABLES
  client,  \* the DropboxSignClient handle: api_key, pool, timeout
  pc,      \* where the current call is: "idle" (no call), "awaitSend" (in
           \* send().await), "awaitText" (in response.text().await), "done"
           \* (returned, the result not yet let go of)
  op,      \* the operation of the current call: "get", "send", or "none"
  arg,     \* its argument: the signature_request_id of a get, the
           \* send_signature_request of a send
  wire,    \* the requests handed to the transport since the call began
  status,  \* response.status() once the response has arrived, 0 before
  text,    \* the outcome of response.text().await, None before
  result,  \* the value the call returned, None before
  stdout,  \* the lines written to standard output since the call began
  calls,   \* the calls of the callers that share one &DropboxSignClient:
           \* for each caller the pc, op, arg, wire, status, text and result
           \* of its call
  outbound \* a SendSignatureRequest on its way out: the record under
           \* construction (req), the arguments given to new and to the
           \* setters called so far (given), its JSON once serialized (json),
           \* and what deserializing that JSON gives (back)

vars == <<client, pc, op, arg, wire, status, text, result, stdout, calls, outbound>>

\* The argument of a call, by the parameter it is passed in.
NoArg == [signature_request_id |-> None, send_signature_request |-> None]

IdArg(signature_request_id) ==
  [signature_request_id |-> Some(signature_request_id),
   send_signature_request |-> None]

RequestArg(send_signature_request) ==
  [signature_request_id |-> None,
   send_signature_request |-> Some(send_signature_request)]

\* The callers that hold a shared reference to the client.
Callers == {1, 2}

\* A caller that has not called yet.
IdleCall ==
  [ pc |-> "idle", op |-> "none", arg |-> None, wire |-> <<>>, status |-> 0,
    text |-> None, result |-> None ]

Init ==
  /\ client \in { new(k) : k \in ApiKeys }
  /\ pc = "idle"
  /\ op = "none"
  /\ arg = NoArg
  /\ wire = <<>>
  /\ status = 0
  /\ text = None
  /\ result = None
  /\ stdout = <<>>
  /\ calls = [c \in Callers |-> IdleCall]
  /\ outbound = [req |-> None, given |-> <<>>, json |-> None, back |-> None]

\* with_pool / with_timeout take the client by value: no call borrows it.
WithPool(pool) ==
  /\ pc = "idle"
  /\ client' = with_pool(client, pool)
  /\ UNCHANGED <<outbound, calls, pc, op, arg, wire, status, text, result, stdout>>

WithTimeout(timeout) ==
  /\ pc = "idle"
  /\ client' = with_timeout(client, timeout)
  /\ UNCHANGED <<outbound, calls, pc, op, arg, wire, status, text, result, stdout>>

\* A call begins: the request is built and handed to the transport, and the
\* call waits in send().await.
Begin(o, a, request) ==
  /\ pc = "idle"
  /\ op' = o
  /\ arg' = a
  /\ wire' = <<request>>
  /\ pc' = "awaitSend"
  /\ UNCHANGED <<outbound, calls, client, status, text, result, stdout>>

\* GetSignatureRequest with a slip: an empty identifier is turned down
\* before anything is sent.
GetSignatureRequestValidated(signature_request_id) ==
  IF signature_request_id = ""
  THEN /\ pc = "idle"
       /\ op' = "get"
       /\ arg' = IdArg(signature_request_id)
       /\ result' = Some(Err(Other(StringError("empty signature_request_id"))))
       /\ pc' = "done"
       /\ UNCHANGED <<outbound, calls, client, wire, status, text, stdout>>
  ELSE Begin("get", IdArg(signature_request_id),
        get_request(client, signature_request_id))

GetSignatureRequest(signature_request_id) ==
  Begin("get", IdArg(signature_request_id),
        get_request(client, signature_request_id))

SendWithTemplate(send_signature_request) ==
  Begin("send", RequestArg(send_signature_request),
        send_request(client, send_signature_request))

\* SendFails with a slip: the request is sent again.
SendFailsRetry ==
  /\ pc = "awaitSend"
  /\ Len(wire) < 3
  /\ wire' = Append(wire, wire[1])
  /\ UNCHANGED <<outbound, calls, client, pc, op, arg, status, text, result, stdout>>

\* SendFails with a slip: the transport error is boxed like a parse error.
SendFailsBoxed ==
  /\ pc = "awaitSend"
  /\ result' = Some(Err(Other(ReqwestError("send"))))
  /\ pc' = "done"
  /\ UNCHANGED <<outbound, calls, client, op, arg, wire, status, text, stdout>>

\* send().await fails: `?` returns the transport error.
SendFails ==
  /\ pc = "awaitSend"
  /\ result' = Some(Err(Reqwest(ReqwestError("send"))))
  /\ pc' = "done"
  /\ UNCHANGED <<outbound, calls, client, op, arg, wire, status, text, stdout>>

\* ResponseArrives with a slip: a redirect or a server error makes the call
\* send again and wait for the next response.
ResponseArrivesRetrying(s) ==
  /\ pc = "awaitSend"
  /\ status' = s
  /\ pc' = IF s \in {301, 500} THEN "awaitSend" ELSE "awaitText"
  /\ UNCHANGED <<outbound, calls, client, op, arg, wire, text, result, stdout>>

\* send().await yields the response: the status is read, and both branches
\* go on to read the body.
ResponseArrives(s) ==
  /\ pc = "awaitSend"
  /\ status' = s
  /\ pc' = "awaitText"
  /\ UNCHANGED <<outbound, calls, client, op, arg, wire, text, result, stdout>>

\* What the call returns once the body has been read or has failed to be.
Finish(o, s, t) ==
  IF o = "get" THEN get_signature_request_finish(s, t)
  ELSE send_with_template_finish(s, t)

\* Trace with a slip: get_signature_request writes the line too.
TraceBoth(o, r) ==
  IF r.ok THEN <<r.v[1]>> ELSE <<>>

\* The lines send_with_template writes: the parsed record, on success.
Trace(o, r) ==
  IF o = "send" /\ r.ok THEN <<r.v[1]>> ELSE <<>>

\* response.text().await completes with outcome t and the call runs to its
\* end.
TextCompletes(t) ==
  /\ pc = "awaitText"
  /\ text' = Some(t)
  /\ LET r == Finish(op, status, t) IN
       /\ result' = Some(r)
       /\ stdout' = stdout \o Trace(op, r)
  /\ pc' = "done"
  /\ UNCHANGED <<outbound, calls, client, op, arg, wire, status>>

BodyArrives(body) == TextCompletes(Ok(body))

BodyFails == TextCompletes(Err(ReqwestError("body")))

\* The caller takes the result and lets go of the call: the client is free
\* for the next one.
Drop ==
  /\ pc = "done"
  /\ pc' = "idle"
  /\ op' = "none"
  /\ arg' = NoArg
  /\ wire' = <<>>
  /\ status' = 0
  /\ text' = None
  /\ result' = None
  /\ stdout' = <<>>
  /\ UNCHANGED <<outbound, calls, client>>

Next ==
  \/ \E pool \in PoolSizes : WithPool(pool)
  \/ \E timeout \in Timeouts : WithTimeout(timeout)
  \/ \E id \in SignatureRequestIds : GetSignatureRequest(id)
  \/ \E req \in SendRequests : SendWithTemplate(req)
  \/ SendFails
  \/ \E s \in Statuses : ResponseArrives(s)
  \/ \E body \in Bodies : BodyArrives(body)
  \/ BodyFails
  \/ Drop

Spec == Init /\ [][Next]_vars


(***************************************************************************)
(* Concurrent callers. Both operations take &self, so several callers may  *)
(* be inside them at once on one client; each call has its own url,        *)
(* response, status and body, and the awaits are where the calls           *)
(* interleave. The setters take the client by value and cannot run while   *)
(* it is shared.                                                           *)
(***************************************************************************)
ConcIds == { "abc123" }
ConcRequests == { SendSignatureRequest_new(<<Signer1>>, <<"template-id">>) }
ConcStatuses == { 200, 400 }
ConcBodies ==
  { [valid |-> FALSE, json |-> JNull],
    [valid |-> TRUE, json |-> JObj(Member("signature_request", Payload1))],
    [valid |-> TRUE,
     json |-> JObj(Member("signature_request", Payload2)
                   @@ Member("warnings", JArr(<<Warning1>>)))],
    [valid |-> TRUE,
     json |-> JObj(Member("error",
                JObj([ error_msg |-> JStr("Not found"),
                       error_name |-> JStr("not_found") ])))] }

CallBegins(c, o, a) ==
  /\ calls[c].pc = "idle"
  /\ calls' = [calls EXCEPT ![c] =
                 [@ EXCEPT !.pc = "awaitSend", !.op = o, !.arg = a,
                           !.wire = <<RequestOf(client, o, a)>>]]
  /\ UNCHANGED <<outbound, client, pc, op, arg, wire, status, text, result, stdout>>

CallSendFails(c) ==
  /\ calls[c].pc = "awaitSend"
  /\ calls' = [calls EXCEPT ![c] =
                 [@ EXCEPT !.pc = "done",
                           !.result = Some(Err(Reqwest(ReqwestError("send"))))]]
  /\ UNCHANGED <<outbound, client, pc, op, arg, wire, status, text, result, stdout>>

CallResponseArrives(c, s) ==
  /\ calls[c].pc = "awaitSend"
  /\ calls' = [calls EXCEPT ![c] = [@ EXCEPT !.pc = "awaitText", !.status = s]]
  /\ UNCHANGED <<outbound, client, pc, op, arg, wire, status, text, result, stdout>>

\* CallTextCompletes with a slip: the status is kept in a slot of the client
\* that the latest response of any caller overwrites.
CallTextCompletesSharedStatus(c, t) ==
  /\ calls[c].pc = "awaitText"
  /\ LET seen == { calls[d].status : d \in Callers } \ {0}
         s == CHOOSE x \in seen : \A y \in seen : x >= y
         r == Finish(calls[c].op, s, t) IN
       /\ calls' = [calls EXCEPT ![c] =
                      [@ EXCEPT !.pc = "done", !.text = Some(t),
                                !.result = Some(r)]]
       /\ stdout' = stdout \o Trace(calls[c].op, r)
  /\ UNCHANGED <<outbound, client, pc, op, arg, wire, status, text, result>>

CallTextCompletes(c, t) ==
  /\ calls[c].pc = "awaitText"
  /\ LET r == Finish(calls[c].op, calls[c].status, t) IN
       /\ calls' = [calls EXCEPT ![c] =
                      [@ EXCEPT !.pc = "done", !.text = Some(t),
                                !.result = Some(r)]]
       /\ stdout' = stdout \o Trace(calls[c].op, r)
  /\ UNCHANGED <<outbound, client, pc, op, arg, wire, status, text, result>>

ConcNext ==
  \E c \in Callers :
    \/ \E id \in ConcIds : CallBegins(c, "get", id)
    \/ \E req \in ConcRequests : CallBegins(c, "send", req)
    \/ CallSendFails(c)
    \/ \E s \in ConcStatuses : CallResponseArrives(c, s)
    \/ \E body \in ConcBodies : CallTextCompletes(c, Ok(body))
    \/ CallTextCompletes(c, Err(ReqwestError("body")))

SpecConc == Init /\ [][ConcNext]_vars

(***************************************************************************)
(* The calls under a transport that does its work: a request handed to it  *)
(* is eventually answered or reported as failed, and a body being read     *)
(* eventually arrives or fails. Nothing in the code waits for anything     *)
(* else, so these are the only fairness conditions. The bodies are one of  *)
(* each kind the classification tells apart.                               *)
(***************************************************************************)
TransportAnswers == SendFails \/ \E s \in Statuses : ResponseArrives(s)

BodyCompletes == BodyFails \/ \E body \in ConcBodies : BodyArrives(body)

LiveNext ==
  \/ \E pool \in PoolSizes : WithPool(pool)
  \/ \E timeout \in Timeouts : WithTimeout(timeout)
  \/ \E id \in SignatureRequestIds : GetSignatureRequest(id)
  \/ \E req \in SendRequests : SendWithTemplate(req)
  \/ TransportAnswers
  \/ BodyCompletes
  \/ Drop

SpecLive ==
  /\ Init /\ [][LiveNext]_vars
  /\ WF_vars(TransportAnswers) /\ WF_vars(BodyCompletes)

(***************************************************************************)
(* Building, serializing and deserializing a SendSignatureRequest: new,    *)
(* then any setters in any order, then the JSON that .json(..) puts in the *)
(* body, then that JSON read back as a SendSignatureRequest.               *)
(***************************************************************************)
SignerFull ==
  SubSignatureRequestTemplateSigner_sms_phone_number_type(
    SubSignatureRequestTemplateSigner_sms_phone_number(
      SubSignatureRequestTemplateSigner_pin(
        SubSignatureRequestTemplateSigner_new("Witness", "jane", "jane@example.com"),
        "1234"),
      "+14155550100"),
    "delivery")

CustomFieldFull ==
  SubCustomField_value(
    SubCustomField_required(
      SubCustomField_editor(SubCustomField_new("test_field_two"), "Client"),
      TRUE),
    "v")

SigningOptionsFull ==
  SubSigningOptions_upload(
    SubSigningOptions_o_type(
      SubSigningOptions_phone(
        SubSigningOptions_draw(SubSigningOptions_new("draw"), TRUE),
        FALSE),
      TRUE),
    FALSE)

\* The arguments the setters are called with, by setter.
SetterArgs ==
  [ allow_decline |-> {TRUE, FALSE},
    ccs |-> { <<SubCC_new("Manager", "boss@example.com")>> },
    client_id |-> { "client-1" },
    custom_fields |-> { <<SubCustomField_new("test_field_one"), CustomFieldFull>> },
    files |-> { << <<37, 80, 255>>, <<>> >> },
    file_urls |-> { <<"https://example.com/a.pdf">> },
    is_eid |-> { FALSE },
    message |-> { "" },
    metadata |-> { [env |-> "test"] },
    signing_options |-> { SubSigningOptions_new("type"), SigningOptionsFull },
    signing_redirect_url |-> { "https://example.com/done" },
    test_mode |-> { TRUE },
    title |-> { "Contract Signature" } ]

SignerLists == { <<Signer1, SignerFull>> }
TemplateIdLists == { <<"template-id">> }

Building == outbound.req.t = "Some" /\ outbound.json.t = "None"

BuildNew(signers, template_ids) ==
  /\ outbound.req.t = "None"
  /\ outbound' = [outbound EXCEPT
                    !.req = Some(SendSignatureRequest_new(signers, template_ids)),
                    !.given = [signers |-> signers, template_ids |-> template_ids]]
  /\ UNCHANGED <<client, pc, op, arg, wire, status, text, result, stdout, calls>>

\* The setter `name` called with x; r is what the setter returns.
Set(name, x, r) ==
  /\ outbound' = [outbound EXCEPT !.req = Some(r),
                                  !.given = (name :> x) @@ outbound.given]
  /\ UNCHANGED <<client, pc, op, arg, wire, status, text, result, stdout, calls>>

Serialize ==
  /\ Building
  /\ outbound' = [outbound EXCEPT
                    !.json = Some(Ser(TStruct("SendSignatureRequest"), outbound.req.v))]
  /\ UNCHANGED <<client, pc, op, arg, wire, status, text, result, stdout, calls>>

Deserialize ==
  /\ outbound.json.t = "Some"
  /\ outbound.back.t = "None"
  /\ outbound' = [outbound EXCEPT
                    !.back = Some(De(TStruct("SendSignatureRequest"), outbound.json.v))]
  /\ UNCHANGED <<client, pc, op, arg, wire, status, text, result, stdout, calls>>

SerNext ==
  \/ \E signers \in SignerLists, template_ids \in TemplateIdLists :
       BuildNew(signers, template_ids)
  \/ Building /\ \E x \in SetterArgs.allow_decline :
       Set("allow_decline", x, allow_decline(outbound.req.v, x))
  \/ Building /\ \E x \in SetterArgs.ccs :
       Set("ccs", x, ccs(outbound.req.v, x))
  \/ Building /\ \E x \in SetterArgs.client_id :
       Set("client_id", x, client_id(outbound.req.v, x))
  \/ Building /\ \E x \in SetterArgs.custom_fields :
       Set("custom_fields", x, custom_fields(outbound.req.v, x))
  \/ Building /\ \E x \in SetterArgs.files :
       Set("files", x, files(outbound.req.v, x))
  \/ Building /\ \E x \in SetterArgs.file_urls :
       Set("file_urls", x, file_urls(outbound.req.v, x))
  \/ Building /\ \E x \in SetterArgs.is_eid :
       Set("is_eid", x, is_eid(outbound.req.v, x))
  \/ Building /\ \E x \in SetterArgs.message :
       Set("message", x, message(outbound.req.v, x))
  \/ Building /\ \E x \in SetterArgs.metadata :
       Set("metadata", x, metadata(outbound.req.v, x))
  \/ Building /\ \E x \in SetterArgs.signing_options :
       Set("signing_options", x, signing_options(outbound.req.v, x))
  \/ Building /\ \E x \in SetterArgs.signing_redirect_url :
       Set("signing_redirect_url", x, signing_redirect_url(outbound.req.v, x))
  \/ Building /\ \E x \in SetterArgs.test_mode :
       Set("test_mode", x, test_mode(outbound.req.v, x))
  \/ Building /\ \E x \in SetterArgs.title :
       Set("title", x, title(outbound.req.v, x))
  \/ Serialize
  \/ Deserialize

SpecSer == Init /\ [][SerNext]_vars

(***************************************************************************)
(* Vocabulary of the properties. A response is described by what it holds, *)
(* never by what the parser makes of it.                                   *)
(***************************************************************************)
\* The call has returned after reading a body.
Delivered == pc = "done" /\ text.t = "Some" /\ text.v.ok
\* That body, and its top-level members.
TheBody == text.v.v
IsObject(body) == body.valid /\ body.json.t = "obj"
Has(body, key) == IsObject(body) /\ key \in DOMAIN body.json.v
\* What the call returned.
Returned == result.v
Failed(variant) == ~Returned.ok /\ Returned.e.variant = variant

Non2xx(s) == s < 200 \/ s > 299

\* The body has the shape {"error": {error_msg, error_name, error_path?}}.
MatchesErrorEnvelope(body) ==
  /\ Has(body, "error")
  /\ LET e == body.json.v["error"] IN
     /\ e.t = "obj"
     /\ {"error_msg", "error_name"} \subseteq DOMAIN e.v
     /\ e.v["error_msg"].t = "str"
     /\ e.v["error_name"].t = "str"
     /\ "error_path" \in DOMAIN e.v => e.v["error_path"].t \in {"str", "null"}

\* The body has no top-level member signature_request.
LacksPayloadKey(body) == body.valid /\ ~Has(body, PayloadKey)

\* The body holds a well-formed payload under signature_request.
HasGoodPayload(body) == Has(body, PayloadKey) /\ body.json.v[PayloadKey] \in GoodPayloads

\* The body holds a list of well-formed warning records under warnings.
HasGoodWarnings(body) == Has(body, "warnings") /\ body.json.v["warnings"] \in GoodWarnings

\* The body with its top-level warnings replaced by w (removed for Absent).
WithWarnings(body, w) ==
  [ valid |-> TRUE,
    json |-> JObj(Member("warnings", w)
                  @@ [ key \in DOMAIN body.json.v \ {"warnings"} |-> body.json.v[key] ]) ]

\* The names of the fields of a struct.
FieldNames(fields) == { fields[i].name : i \in DOMAIN fields }

(***************************************************************************)
(* C1. For a non-2xx response whose body matches the error envelope, the   *)
(* call fails with a provider error whose status is the HTTP status of     *)
(* that response.                                                          *)
(***************************************************************************)
C1_StatusIsObserved ==
  (Delivered /\ Non2xx(status) /\ MatchesErrorEnvelope(TheBody))
    => (Failed("ResponseError") /\ Returned.e.inner.status = status)

(***************************************************************************)
(* C2. For a non-2xx response whose body matches the error envelope, the   *)
(* call fails with a provider error whose error_msg and error_name are the *)
(* body's, and whose error_path is the body's when present and None when   *)
(* the key is absent.                                                      *)
(***************************************************************************)
C2_ErrorFieldsExact ==
  (Delivered /\ Non2xx(status) /\ MatchesErrorEnvelope(TheBody))
    => LET e == TheBody.json.v["error"].v IN
       /\ Failed("ResponseError")
       /\ Returned.e.inner.error_msg = e["error_msg"].v
       /\ Returned.e.inner.error_name = e["error_name"].v
       /\ Returned.e.inner.error_path =
            IF "error_path" \in DOMAIN e /\ e["error_path"].t = "str"
            THEN Some(e["error_path"].v) ELSE None

C2_Witness ==
  /\ Delivered /\ Non2xx(status) /\ MatchesErrorEnvelope(TheBody)
  /\ "error_path" \notin DOMAIN TheBody.json.v["error"].v
  /\ Failed("ResponseError")
  /\ Returned.e.inner.error_path = None

(***************************************************************************)
(* C3. As claimed: a body without the key signature_request makes the call *)
(* fail with the "missing key" parse error whatever the HTTP status.       *)
(***************************************************************************)
C3_MissingKeyAnyStatus ==
  (Delivered /\ LacksPayloadKey(TheBody))
    => Returned = Err(Other(MissingKey(PayloadKey)))

(***************************************************************************)
(* C3, amended. With status 200 a JSON body without the key                *)
(* signature_request makes the call fail with the "missing key" parse      *)
(* error; with any other status the body is read as an error envelope and  *)
(* the call fails with a provider error or a JSON error, never with        *)
(* "missing key".                                                          *)
(***************************************************************************)
C3_MissingKeyOn200 ==
  (Delivered /\ LacksPayloadKey(TheBody))
    => /\ status = 200 => Returned = Err(Other(MissingKey(PayloadKey)))
       /\ status # 200 => (Failed("ResponseError") \/ Failed("Serde"))

C3_Witness ==
  /\ Delivered /\ LacksPayloadKey(TheBody) /\ status = 200
  /\ Returned = Err(Other(MissingKey(PayloadKey)))

(***************************************************************************)
(* C4. Every 2xx response whose body holds a well-formed payload (and no   *)
(* malformed warnings) returns the response record.                        *)
(***************************************************************************)
C4_SuccessOnEvery2xx ==
  (Delivered /\ ~Non2xx(status) /\ HasGoodPayload(TheBody)
     /\ (Has(TheBody, "warnings") => HasGoodWarnings(TheBody)))
    => Returned.ok

(***************************************************************************)
(* C5. For a body with a well-formed payload and a list of well-formed     *)
(* warnings, parsing returns the record and Some(warnings), the list as    *)
(* long as the source array and in its order; it is what the call returns  *)
(* when it parses (status 200).                                            *)
(***************************************************************************)
C5_WarningsInOrder ==
  (Delivered /\ HasGoodPayload(TheBody) /\ HasGoodWarnings(TheBody))
    => LET r == parse_response(Ok(TheBody), PayloadKey)
           src == TheBody.json.v["warnings"].v
       IN /\ r.ok
          /\ r.v[1].signature_request_id
               = TheBody.json.v[PayloadKey].v["signature_request_id"].v
          /\ r.v[2].t = "Some"
          /\ Len(r.v[2].v) = Len(src)
          /\ \A i \in 1..Len(src) :
               /\ r.v[2].v[i].warning_msg = src[i].v["warning_msg"].v
               /\ r.v[2].v[i].warning_name = src[i].v["warning_name"].v
          /\ status = 200 => Returned = Ok(r.v)

C5_Witness ==
  /\ Delivered /\ HasGoodPayload(TheBody) /\ HasGoodWarnings(TheBody)
  /\ status = 200
  /\ Returned.ok
  /\ Len(Returned.v[2].v) = MaxWarnings
  /\ Returned.v[2].v[1] # Returned.v[2].v[MaxWarnings]

(***************************************************************************)
(* C6. For a body with a well-formed payload and no warnings key, parsing  *)
(* returns the record and None; it is what the call returns when it parses *)
(* (status 200).                                                           *)
(***************************************************************************)
C6_NoWarningsIsNone ==
  (Delivered /\ HasGoodPayload(TheBody) /\ ~Has(TheBody, "warnings"))
    => LET r == parse_response(Ok(TheBody), PayloadKey) IN
       /\ r.ok
       /\ r.v[1].signature_request_id
            = TheBody.json.v[PayloadKey].v["signature_request_id"].v
       /\ r.v[2] = None
       /\ status = 200 => Returned = Ok(r.v)

C6_Witness ==
  /\ Delivered /\ HasGoodPayload(TheBody) /\ ~Has(TheBody, "warnings")
  /\ status = 200
  /\ Returned.ok
  /\ Returned.v[2] = None

(***************************************************************************)
(* C7. As claimed: two responses with the same status and payload that     *)
(* differ only in the value of their top-level warnings either both        *)
(* succeed or both fail.                                                   *)
(***************************************************************************)
C7_WarningsNeverMatter ==
  (Delivered /\ Has(TheBody, "warnings"))
    => \A w \in GoodWarnings \cup PositionalWarnings \cup BadWarnings :
         Finish(op, status, Ok(WithWarnings(TheBody, w))).ok = Returned.ok

(***************************************************************************)
(* C7, amended. Two responses with the same status and payload whose       *)
(* top-level warnings are each absent or a list of well-formed warning     *)
(* records either both succeed or both fail. (Each such response is        *)
(* compared with the one that has no warnings; every response of the       *)
(* family is reached with the same operation and status, so any two of     *)
(* them agree.)                                                            *)
(***************************************************************************)
C7_GoodWarningsNeverMatter ==
  (Delivered /\ IsObject(TheBody)
     /\ (Has(TheBody, "warnings") => HasGoodWarnings(TheBody)))
    => Finish(op, status, Ok(WithWarnings(TheBody, Absent))).ok = Returned.ok

C7_Witness ==
  /\ Delivered /\ HasGoodWarnings(TheBody)
  /\ Len(TheBody.json.v["warnings"].v) = MaxWarnings
  /\ Returned.ok
  /\ Finish(op, status, Ok(WithWarnings(TheBody, Absent))).ok

(***************************************************************************)
(* C8. A body that cannot be interpreted per the envelope contract makes   *)
(* the call fail with one and the same parse-error kind, which is neither  *)
(* the provider-error nor the transport-error kind, whatever the status    *)
(* and whichever the operation.                                            *)
(***************************************************************************)
\* Not JSON, or JSON that is neither a success envelope nor an error
\* envelope.
Uninterpretable(body) ==
  \/ ~body.valid
  \/ /\ ~(HasGoodPayload(body) /\ (Has(body, "warnings") => HasGoodWarnings(body)))
     /\ ~MatchesErrorEnvelope(body)

C8_OneParseErrorKind ==
  (Delivered /\ Uninterpretable(TheBody))
    => /\ ~Returned.ok
       /\ Returned.e.variant \notin {"ResponseError", "Reqwest"}
       /\ \A o \in {"get", "send"}, s \in Statuses :
            LET r == Finish(o, s, Ok(TheBody)) IN
            ~r.ok /\ r.e.variant = Returned.e.variant

(***************************************************************************)
(* C9. Each call performs exactly one outbound request: from its start to  *)
(* its return one request has been handed to the transport, whether it     *)
(* fails or succeeds, and none is in flight without a call.                *)
(***************************************************************************)
C9_ExactlyOneRequest ==
  /\ pc = "idle" => Len(wire) = 0
  /\ pc # "idle" => Len(wire) = 1
  /\ pc = "done" => result.t = "Some"

C9_Witness ==
  /\ pc = "done"
  /\ status # 0
  /\ ~Returned.ok
  /\ Len(wire) = 1

(***************************************************************************)
(* C10. No partial success: a call that has returned holds a full (record, *)
(* optional warnings) pair or one error; the pair only if the body was     *)
(* read, was JSON, held the payload key with a well-formed payload, and    *)
(* held no warnings or warnings that deserialize, all of them returned.    *)
(***************************************************************************)
C10_NoPartialSuccess ==
  pc = "done" =>
    /\ result.t = "Some"
    /\ ~Returned.ok =>
         Returned.e.variant \in {"Reqwest", "Serde", "ResponseError", "Other"}
    /\ Returned.ok =>
         /\ text.t = "Some" /\ text.v.ok
         /\ HasGoodPayload(TheBody)
         /\ Has(TheBody, "warnings") =>
              TheBody.json.v["warnings"] \in GoodWarnings \cup PositionalWarnings
         /\ DOMAIN Returned.v = 1..2
         /\ DOMAIN Returned.v[1] = FieldNames(SignatureRequestResponse)
         /\ Returned.v[2].t = "Some" <=> Has(TheBody, "warnings")
         /\ Returned.v[2].t = "Some" =>
              /\ Len(Returned.v[2].v) = Len(TheBody.json.v["warnings"].v)
              /\ \A i \in DOMAIN Returned.v[2].v :
                   DOMAIN Returned.v[2].v[i] = FieldNames(WarningResponse)

C10_Witness ==
  /\ pc = "done"
  /\ Returned.ok
  /\ Returned.v[2].t = "Some"
  /\ Len(Returned.v[2].v) = MaxWarnings

(***************************************************************************)
(* C11. When send().await fails (the request could not be sent, or no      *)
(* response came), either operation fails with the Reqwest kind, which is  *)
(* none of the provider and parse kinds; no body has been read or parsed,  *)
(* nothing was written, and exactly one request was handed to the          *)
(* transport.                                                              *)
(***************************************************************************)
TransportFailed == pc = "done" /\ status = 0

C11_TransportFailure ==
  TransportFailed =>
    /\ Returned = Err(Reqwest(ReqwestError("send")))
    /\ Returned.e.variant \notin {"ResponseError", "Serde", "Other"}
    /\ text = None
    /\ stdout = <<>>
    /\ Len(wire) = 1

C11_Witness == TransportFailed /\ op = "send" /\ Failed("Reqwest")

(***************************************************************************)
(* C12. The two operations answer alike: whatever a call returned for its  *)
(* status and body outcome, the other operation returns for the same       *)
(* status and body outcome, and a transport failure gives the same error   *)
(* from both.                                                              *)
(***************************************************************************)
Counterpart(o) == IF o = "get" THEN "send" ELSE "get"

C12_SameContract ==
  pc = "done" =>
    IF text.t = "Some"
    THEN Returned = Finish(Counterpart(op), status, text.v)
    ELSE Returned = Err(Reqwest(ReqwestError("send")))

C12_Witness ==
  /\ Delivered /\ op = "send" /\ status = StatusOK
  /\ Has(TheBody, PayloadKey) /\ Failed("Other")

(***************************************************************************)
(* C13. pool and timeout do not reach the wire: the request a call sent is *)
(* the request any client with the same api_key and any other pool and     *)
(* timeout builds for the same operation and argument, and what the call   *)
(* returned is a function of the operation, the status and the body alone. *)
(***************************************************************************)
Configured(api_key, pool, timeout) ==
  with_timeout(with_pool(new(api_key), pool), timeout)

TheArg ==
  IF op = "get" THEN arg.signature_request_id.v ELSE arg.send_signature_request.v

C13_SettingsOffTheWire ==
  /\ pc # "idle" =>
       \A pool \in PoolSizes, timeout \in Timeouts :
         wire[1] = RequestOf(Configured(client.api_key, pool, timeout), op, TheArg)
  /\ (pc = "done" /\ text.t = "Some") => Returned = Finish(op, status, text.v)

C13_Witness ==
  /\ pc = "done" /\ op = "get" /\ Returned.ok
  /\ client.pool # DefaultPool /\ client.timeout # DefaultTimeout

(***************************************************************************)
(* C14. A new client has its api_key, pool 5 and timeout 30. with_pool(n)  *)
(* sets pool to n and leaves api_key and timeout alone; with_timeout(n)    *)
(* sets timeout to n and leaves api_key and pool alone; no other step      *)
(* changes the client. Hence after any chain each setting holds the last   *)
(* value given for it, or its default.                                     *)
(***************************************************************************)
C14_SettersFrame ==
  /\ \E k \in ApiKeys : client = [api_key |-> k, pool |-> 5, timeout |-> 30]
  /\ [][ /\ \A n \in PoolSizes : WithPool(n) =>
              client' = [api_key |-> client.api_key, pool |-> n,
                         timeout |-> client.timeout]
         /\ \A n \in Timeouts : WithTimeout(n) =>
              client' = [api_key |-> client.api_key, pool |-> client.pool,
                         timeout |-> n]
         /\ (client' # client) =>
              \/ \E n \in PoolSizes : WithPool(n)
              \/ \E n \in Timeouts : WithTimeout(n) ]_vars

C14_Witness ==
  /\ client.pool \in PoolSizes \ {DefaultPool}
  /\ client.timeout \in Timeouts \ {DefaultTimeout}
  /\ pc = "idle"

(***************************************************************************)
(* C15. With several callers inside the operations on one client, no step  *)
(* changes the client, and each call sent the request of its own operation *)
(* and argument and returned what its own status and body outcome give,    *)
(* whatever the other calls are doing.                                     *)
(***************************************************************************)
OwnOutcome(call) ==
  IF call.text.t = "Some"
  THEN Finish(call.op, call.status, call.text.v)
  ELSE Err(Reqwest(ReqwestError("send")))

C15_CallsIndependent ==
  /\ [](\A c \in Callers :
          /\ calls[c].pc # "idle" =>
               calls[c].wire = <<RequestOf(client, calls[c].op, calls[c].arg)>>
          /\ calls[c].pc = "done" => calls[c].result = Some(OwnOutcome(calls[c])))
  /\ [][client' = client]_vars

C15_Witness ==
  /\ calls[1].pc = "done" /\ calls[1].op = "get" /\ calls[1].status = 400
  /\ calls[1].result.v.e.variant = "ResponseError"
  /\ calls[2].pc = "done" /\ calls[2].op = "send" /\ calls[2].status = 200
  /\ calls[2].result.v.ok
  /\ Len(stdout) = 1

(***************************************************************************)
(* C16. In the JSON of an outbound SendSignatureRequest, and of every      *)
(* signer, custom field, cc and signing-options record inside it, an       *)
(* optional field has a member exactly when it is set, no member is null,  *)
(* every other field has its member (signers and template_ids among them), *)
(* and there are no further members.                                       *)
(***************************************************************************)
RECURSIVE OmitsAbsent(_, _, _)
OmitsAbsent(ty, x, j) ==
  CASE ty.k = "Struct" ->
         LET fields == StructFields(ty.name) IN
         /\ j.t = "obj"
         /\ DOMAIN j.v \subseteq { fields[i].key : i \in DOMAIN fields }
         /\ \A i \in DOMAIN fields :
              LET f == fields[i] IN
              IF f.ty.k = "Option"
              THEN /\ f.key \in DOMAIN j.v <=> x[f.name].t = "Some"
                   /\ x[f.name].t = "Some" =>
                        OmitsAbsent(f.ty.of, x[f.name].v, j.v[f.key])
              ELSE /\ f.key \in DOMAIN j.v
                   /\ OmitsAbsent(f.ty, x[f.name], j.v[f.key])
    [] ty.k = "Vec" ->
         /\ j.t = "arr"
         /\ Len(j.v) = Len(x)
         /\ \A i \in DOMAIN x : OmitsAbsent(ty.of, x[i], j.v[i])
    [] OTHER -> j.t # "null"

C16_OmittedIfAbsent ==
  outbound.json.t = "Some" =>
    /\ OmitsAbsent(TStruct("SendSignatureRequest"), outbound.req.v, outbound.json.v)
    /\ {"signers", "template_ids"} \subseteq DOMAIN outbound.json.v.v

C16_Witness ==
  /\ outbound.json.t = "Some"
  /\ outbound.req.v.title.t = "None"
  /\ outbound.req.v.message.t = "Some"
  /\ outbound.req.v.signing_options = Some(SigningOptionsFull)
  /\ outbound.req.v.custom_fields.t = "Some"

(***************************************************************************)
(* C17. A SendSignatureRequest built by new and any setters, serialized    *)
(* and deserialized, comes back as a record that holds, field for field,   *)
(* the value last given for each field that was given one and None for     *)
(* each field that was not, which is the record that was built.            *)
(***************************************************************************)
AsGiven(given) ==
  [ name \in FieldNames(SendSignatureRequest) |->
      IF name \in {"signers", "template_ids"} THEN given[name]
      ELSE IF name \in DOMAIN given THEN Some(given[name]) ELSE None ]

C17_RoundTrip ==
  outbound.back.t = "Some" =>
    /\ outbound.back.v = Ok(AsGiven(outbound.given))
    /\ outbound.back.v = Ok(outbound.req.v)

C17_Witness ==
  /\ outbound.back.t = "Some"
  /\ outbound.back.v.ok
  /\ DOMAIN outbound.given =
       {"signers", "template_ids", "allow_decline", "custom_fields", "files",
        "metadata", "signing_options"}
  /\ outbound.given.allow_decline = FALSE

(***************************************************************************)
(* C18. Every request handed to the transport, by either operation,        *)
(* carries basic_auth with the client's api_key as username and the empty  *)
(* string as password.                                                     *)
(***************************************************************************)
C18_BasicAuthOnEveryRequest ==
  /\ pc \in {"awaitSend", "awaitText"} => wire # <<>>
  /\ \A i \in DOMAIN wire :
       /\ "basic_auth" \in DOMAIN wire[i]
       /\ wire[i].basic_auth = <<client.api_key, Some("")>>

C18_Witness ==
  /\ pc = "awaitSend" /\ op = "send" /\ client.api_key = "key-b"
  /\ wire[1].basic_auth[1] = "key-b"

(***************************************************************************)
(* C19. A get_signature_request(id) call, for every id, has handed the     *)
(* transport one GET of https://api.hellosign.com/v3/signature_request/    *)
(* followed by the id as given, without a body; a send_with_template call  *)
(* has handed it one POST of                                               *)
(* https://api.hellosign.com/v3/signature_request/send_with_template whose *)
(* body is the JSON of the request record.                                 *)
(***************************************************************************)
C19_RequestLines ==
  /\ (op = "get" /\ pc # "idle") =>
       /\ Len(wire) = 1
       /\ wire[1].method = "GET"
       /\ wire[1].url = "https://api.hellosign.com/v3/signature_request/"
                      \o arg.signature_request_id.v
       /\ wire[1].json = None
  /\ (op = "send" /\ pc # "idle") =>
       /\ Len(wire) = 1
       /\ wire[1].method = "POST"
       /\ wire[1].url = "https://api.hellosign.com/v3/signature_request/send_with_template"
       /\ wire[1].json = Some(Ser(TStruct("SendSignatureRequest"),
                                  arg.send_signature_request.v))

C19_Witness ==
  /\ op = "get" /\ pc = "awaitSend" /\ arg.signature_request_id = Some("")
  /\ wire[1].url = "https://api.hellosign.com/v3/signature_request/"

(***************************************************************************)
(* C20. On a 200 response the first of the steps body read, JSON parse,    *)
(* payload-key lookup, payload deserialization, warnings deserialization   *)
(* that fails gives the error: a body that was not read gives the read     *)
(* error, text that is not JSON the syntax error, JSON without the payload *)
(* key the "missing key" error even when its warnings are malformed, a     *)
(* payload of the wrong shape (null, a missing required field, a wrong     *)
(* type) the shape error and not "missing key", whatever the warnings, and *)
(* malformed warnings the shape error only when the payload is good.       *)
(***************************************************************************)
HasBadPayload(body) == Has(body, PayloadKey) /\ body.json.v[PayloadKey] \in BadPayloads
HasBadWarnings(body) == Has(body, "warnings") /\ body.json.v["warnings"] \in BadWarnings

C20_FirstFailingStep ==
  (pc = "done" /\ status = 200 /\ text.t = "Some") =>
    IF ~text.v.ok THEN Returned = Err(Other(text.v.e))
    ELSE IF ~TheBody.valid THEN Returned = Err(Other(SerdeError("syntax")))
    ELSE IF ~Has(TheBody, PayloadKey)
      THEN Returned = Err(Other(StringError("Missing key signature_request in response")))
    ELSE IF HasBadPayload(TheBody)
      THEN /\ Returned = Err(Other(SerdeError("data")))
           /\ Returned.e.inner # MissingKey(PayloadKey)
    ELSE IF HasBadWarnings(TheBody) THEN Returned = Err(Other(SerdeError("data")))
    ELSE Returned.ok

C20_Witness ==
  /\ Delivered /\ status = 200
  /\ ~Has(TheBody, PayloadKey) /\ HasBadWarnings(TheBody)
  /\ Returned.e.inner.src = "string"

(***************************************************************************)
(* C21. On a 200 response with a well-formed payload, a top-level warnings *)
(* member that is no list (a string, null), or a list with an element that *)
(* is an object lacking a string warning_msg or a string warning_name,     *)
(* makes the call fail with the parse error and return no record; a        *)
(* warnings member that is the empty list gives the record with an empty   *)
(* list of warnings.                                                       *)
(***************************************************************************)
LacksWarningField(e) ==
  /\ e.t = "obj"
  /\ \E key \in {"warning_msg", "warning_name"} :
       key \notin DOMAIN e.v \/ e.v[key].t # "str"

MalformedWarnings(w) ==
  \/ w.t # "arr"
  \/ \E i \in DOMAIN w.v : LacksWarningField(w.v[i])

C22_TraceOnSendSuccessOnly ==
  /\ [](stdout = IF pc = "done" /\ op = "send" /\ Returned.ok
                 THEN <<Returned.v[1]>> ELSE <<>>)
  /\ [][ (stdout' # stdout /\ stdout' # <<>>) =>
           /\ op = "send" /\ pc = "awaitText" /\ pc' = "done"
           /\ result'.v.ok
           /\ stdout' = Append(stdout, result'.v.v[1]) ]_vars

C22_Witness ==
  /\ pc = "done" /\ op = "send" /\ Returned.ok
  /\ stdout = <<Returned.v[1]>>

(***************************************************************************)
(* C23. A setter step gives its own field Some of its argument and leaves  *)
(* signers, template_ids and the other twelve optional fields as they      *)
(* were. Hence the record under construction holds, for each field, the    *)
(* last value given to its setter, and None if the setter was not called;  *)
(* two setters of distinct fields give the same record in either order;    *)
(* and files and file_urls can be set together.                            *)
(***************************************************************************)
SetterNames == DOMAIN SetterArgs

C23_SettersSetOwnField ==
  /\ [][ (outbound.req.t = "Some" /\ outbound'.given # outbound.given) =>
           \E name \in SetterNames : \E x \in SetterArgs[name] :
             /\ outbound'.given = (name :> x) @@ outbound.given
             /\ outbound'.req.v =
                  [ f \in FieldNames(SendSignatureRequest) |->
                      IF f = name THEN Some(x) ELSE outbound.req.v[f] ] ]_vars
  /\ [](outbound.req.t = "Some" => outbound.req.v = AsGiven(outbound.given))
  /\ [](Building =>
          \A a, b \in SetterNames : a # b =>
            \A x \in SetterArgs[a], y \in SetterArgs[b] :
              Setter(b, Setter(a, outbound.req.v, x), y)
                = Setter(a, Setter(b, outbound.req.v, y), x))

C23_Witness ==
  /\ Building
  /\ outbound.req.v.files.t = "Some"
  /\ outbound.req.v.file_urls.t = "Some"
  /\ outbound.req.v.allow_decline = Some(FALSE)
  /\ outbound.req.v.title.t = "None"
  /\ Len(outbound.req.v.signers) = 2

(***************************************************************************)
(* C24. With a transport that eventually answers, every call that has      *)
(* begun eventually returns, with a result or an error; and a call moves   *)
(* only forward: from waiting for the response to reading the body or to   *)
(* its return, from reading the body to its return, with one request sent. *)
(***************************************************************************)
InCall == pc \in {"awaitSend", "awaitText"}

C24_EveryCallReturns ==
  /\ InCall ~> (pc = "done" /\ result.t = "Some")
  /\ [][ /\ pc = "awaitSend" => pc' \in {"awaitText", "done"}
         /\ pc = "awaitText" => pc' = "done"
         /\ InCall => wire' = wire ]_<<pc, wire>>

C24_Witness ==
  /\ pc = "done" /\ op = "get" /\ status = 500
  /\ result.t = "Some" /\ Len(wire) = 1

====
